---- MODULE Spec2Model ----
(***************************************************************************)
(* Model of packages/db/src/core/integration/vite-plugin-db.ts: the        *)
(* virtual module resolver (resolveId / load), the local lifecycle         *)
(* manager (recreateTables) and the module content generators.             *)
(*                                                                         *)
(* Strings that the code compares character by character (paths, module   *)
(* ids) are sequences of one-character strings, so that startsWith is a    *)
(* real prefix test on characters.                                         *)
(***************************************************************************)
EXTENDS Integers, Sequences, FiniteSets, TLC

VARIABLES
    connectToStudio,  \* params.connectToStudio: TRUE in remote-managed mode
    appToken,         \* params.appToken, which remote-managed mode has
    root,             \* params.root, a file URL
    srcDir,           \* params.srcDir, a file URL
    res,              \* the last completed resolveId call and its outcome
    asking,           \* resolveId calls suspended on this.resolve, in call order
    tables,           \* what params.tables.get() returns now (declaration order)
    seedFiles,        \* what params.seedFiles.get() returns now
    db,               \* the local database file: its tables, rows and indexes
    clients,          \* how many database clients load has constructed
    pending,          \* load calls suspended at line 72 on recreateTables
    ret               \* the last load call that completed, and its outcome

vars == <<connectToStudio, appToken, root, srcDir, res, asking, tables, seedFiles, db, clients, pending, ret>>

----------------------------------------------------------------------------
(* Strings and URLs *)

IsPrefix(p, s) ==
    /\ Len(p) <= Len(s)
    /\ \A i \in 1..Len(p) : s[i] = p[i]

\* String.prototype.startsWith
StartsWith(s, p) == IsPrefix(p, s)

\* Index of the last "/" of s, 0 when there is none
LastSlash(s) ==
    LET idx == {i \in 1..Len(s) : s[i] = "/"}
    IN  IF idx = {} THEN 0 ELSE CHOOSE i \in idx : \A j \in idx : j <= i

\* A file URL: the protocol and the path name
FileURL(path) == [protocol |-> "file:", pathname |-> path]

\* new URL(rel, base) for a relative reference of letters, digits, "." and
\* "/" (nothing that the URL parser encodes) without dot segments: the base
\* path up to and including its last "/", followed by the reference
NewURL(rel, base) ==
    FileURL(SubSeq(base.pathname, 1, LastSlash(base.pathname)) \o rel)

\* url.href, which is also what JSON.stringify(url) holds: the protocol, "//"
\* and the path, as one string
href(url) ==
    (IF url.protocol = "file:" THEN <<"f", "i", "l", "e", ":">> ELSE <<"?", ":">>)
        \o <<"/", "/">> \o url.pathname

\* The value of a hexadecimal digit, upper or lower case; 16 for other characters
HexVal(c) ==
    LET up == <<"0", "1", "2", "3", "4", "5", "6", "7", "8", "9",
                "A", "B", "C", "D", "E", "F">>
        lo == <<"0", "1", "2", "3", "4", "5", "6", "7", "8", "9",
                "a", "b", "c", "d", "e", "f">>
        hit == { i \in 1..16 : up[i] = c \/ lo[i] = c }
    IN  IF hit = {} THEN 16 ELSE (CHOOSE i \in hit : TRUE) - 1

\* s has a percent escape "%XX" at position i
IsEscape(s, i) ==
    /\ i + 2 <= Len(s)
    /\ s[i] = "%"
    /\ HexVal(s[i + 1]) < 16 /\ HexVal(s[i + 2]) < 16

\* The byte of the escape at position i
ByteAt(s, i) == 16 * HexVal(s[i + 1]) + HexVal(s[i + 2])

\* s has an escape at i whose byte is a UTF-8 continuation byte in lo..hi
IsTrail(s, i, lo, hi) == IsEscape(s, i) /\ ByteAt(s, i) \in lo..hi

\* The characters of the code points 32..126 and 192..255
AsciiChars ==
    <<
       " ", "!", "\"", "#", "$", "%", "&", "'", "(", ")", "*", "+", ",", "-",
       ".", "/", "0", "1", "2", "3", "4", "5", "6", "7", "8", "9", ":", ";",
       "<", "=", ">", "?", "@", "A", "B", "C", "D", "E", "F", "G", "H", "I",
       "J", "K", "L", "M", "N", "O", "P", "Q", "R", "S", "T", "U", "V", "W",
       "X", "Y", "Z", "[", "\\", "]", "^", "_", "U+96", "a", "b", "c", "d", "e",
       "f", "g", "h", "i", "j", "k", "l", "m", "n", "o", "p", "q", "r", "s",
       "t", "u", "v", "w", "x", "y", "z", "{", "|", "}", "~"
    >>
LatinChars ==
    <<
       "À", "Á", "Â", "Ã", "Ä", "Å", "Æ", "Ç", "È", "É", "Ê", "Ë", "Ì", "Í",
       "Î", "Ï", "Ð", "Ñ", "Ò", "Ó", "Ô", "Õ", "Ö", "×", "Ø", "Ù", "Ú", "Û",
       "Ü", "Ý", "Þ", "ß", "à", "á", "â", "ã", "ä", "å", "æ", "ç", "è", "é",
       "ê", "ë", "ì", "í", "î", "ï", "ð", "ñ", "ò", "ó", "ô", "õ", "ö", "÷",
       "ø", "ù", "ú", "û", "ü", "ý", "þ", "ÿ"
    >>

\* The character of a code point; the grave accent (96) and a code point
\* outside the two tables are written "U+" and their number
Chr(code) ==
    IF code \in 32..126 THEN AsciiChars[code - 31]
    ELSE IF code \in 192..255 THEN LatinChars[code - 191]
    ELSE "U+" \o ToString(code)

\* How many escapes the UTF-8 sequence that starts at the escape at position
\* i takes: 1 to 4, or 0 when the bytes are not well-formed UTF-8
Utf8Len(s, i) ==
    LET b == ByteAt(s, i)
    IN  IF b < 128 THEN 1
        ELSE IF b \in 194..223 THEN (IF IsTrail(s, i + 3, 128, 191) THEN 2 ELSE 0)
        ELSE IF b \in 224..239
        THEN (IF /\ IsTrail(s, i + 3, IF b = 224 THEN 160 ELSE 128,
                                        IF b = 237 THEN 159 ELSE 191)
                 /\ IsTrail(s, i + 6, 128, 191)
              THEN 3 ELSE 0)
        ELSE IF b \in 240..244
        THEN (IF /\ IsTrail(s, i + 3, IF b = 240 THEN 144 ELSE 128,
                                        IF b = 244 THEN 143 ELSE 191)
                 /\ IsTrail(s, i + 6, 128, 191)
                 /\ IsTrail(s, i + 9, 128, 191)
              THEN 4 ELSE 0)
        ELSE 0

\* The code point of the well-formed UTF-8 sequence of n escapes at i
Utf8Code(s, i, n) ==
    LET b == ByteAt(s, i)
        t(k) == ByteAt(s, i + 3 * k) - 128
    IN  IF n = 1 THEN b
        ELSE IF n = 2 THEN (b - 192) * 64 + t(1)
        ELSE IF n = 3 THEN (b - 224) * 4096 + t(1) * 64 + t(2)
        ELSE (b - 240) * 262144 + t(1) * 4096 + t(2) * 64 + t(3)

\* decodeURIComponent(s) throws: a "%" that starts no escape, or escapes that
\* are not well-formed UTF-8
RECURSIVE DecodeFails(_)
DecodeFails(s) ==
    IF s = <<>> THEN FALSE
    ELSE IF s[1] # "%" THEN DecodeFails(Tail(s))
    ELSE IF ~IsEscape(s, 1) THEN TRUE
    ELSE LET n == Utf8Len(s, 1)
         IN  IF n = 0 THEN TRUE ELSE DecodeFails(SubSeq(s, 3 * n + 1, Len(s)))

\* decodeURIComponent(s) where it does not throw
RECURSIVE Decode(_)
Decode(s) ==
    IF s = <<>> THEN <<>>
    ELSE IF s[1] # "%" THEN <<s[1]>> \o Decode(Tail(s))
    ELSE LET n == Utf8Len(s, 1)
         IN  <<Chr(Utf8Code(s, 1, n))>> \o Decode(SubSeq(s, 3 * n + 1, Len(s)))

\* The path has an encoded "/": "%2F" or "%2f"
HasEncodedSlash(s) ==
    \E i \in 1..Len(s) : IsEscape(s, i) /\ ByteAt(s, i) = 47

\* fileURLToPath(url) on a POSIX host: the percent-decoded path of a file URL;
\* it throws for another protocol, for an encoded "/" and where the decoding
\* throws
fileURLToPath(url) ==
    IF url.protocol # "file:"
    THEN [kind |-> "throws", error |-> "ERR_INVALID_URL_SCHEME"]
    ELSE IF HasEncodedSlash(url.pathname)
    THEN [kind |-> "throws", error |-> "ERR_INVALID_FILE_URL_PATH"]
    ELSE IF DecodeFails(url.pathname)
    THEN [kind |-> "throws", error |-> "URIError"]
    ELSE [kind |-> "value", value |-> Decode(url.pathname)]

\* s cut at every "/": "/p/s/" gives "", "p", "s", ""
RECURSIVE Split(_)
Split(s) ==
    IF s = <<>> THEN << <<>> >>
    ELSE LET rest == Split(Tail(s))
         IN  IF Head(s) = "/" THEN << <<>> >> \o rest
             ELSE << <<Head(s)>> \o Head(rest) >> \o Tail(rest)

IsName(seg) == seg # <<>>

\* The directory and file names of a path, outermost first
Segments(s) == SelectSeq(Split(s), IsName)

\* "/" followed by the names joined with "/"
RECURSIVE Join(_)
Join(segs) ==
    IF segs = <<>> THEN <<>> ELSE <<"/">> \o Head(segs) \o Join(Tail(segs))

\* path.posix's normalizeString on the names of a path: "." is dropped, ".."
\* takes back the name before it; where there is none, ".." is kept when
\* allowAboveRoot (a relative path) and dropped otherwise
RECURSIVE NormalizeString(_, _, _)
NormalizeString(segs, acc, allowAboveRoot) ==
    IF segs = <<>> THEN acc
    ELSE IF Head(segs) = <<".">> THEN NormalizeString(Tail(segs), acc, allowAboveRoot)
    ELSE IF Head(segs) = <<".", ".">>
         THEN IF acc # <<>> /\ acc[Len(acc)] # <<".", ".">>
              THEN NormalizeString(Tail(segs), SubSeq(acc, 1, Len(acc) - 1),
                                   allowAboveRoot)
              ELSE IF allowAboveRoot
              THEN NormalizeString(Tail(segs), Append(acc, Head(segs)), allowAboveRoot)
              ELSE NormalizeString(Tail(segs), acc, allowAboveRoot)
    ELSE NormalizeString(Tail(segs), Append(acc, Head(segs)), allowAboveRoot)

\* vite's normalizePath on a POSIX host, which is path.posix.normalize: runs of
\* "/" collapse to one, "." and ".." names are resolved, a trailing "/" is
\* kept, and the empty path is "."
normalizePath(s) ==
    IF s = <<>> THEN <<".">>
    ELSE LET isAbsolute == s[1] = "/"
             trailingSeparator == s[Len(s)] = "/"
             segs == NormalizeString(Segments(s), <<>>, ~isAbsolute)
         IN  IF segs = <<>>
             THEN (IF isAbsolute THEN <<"/">>
                   ELSE IF trailingSeparator THEN <<".", "/">> ELSE <<".">>)
             ELSE (IF isAbsolute THEN <<"/">> ELSE <<>>)
                      \o Tail(Join(segs))
                      \o (IF trailingSeparator THEN <<"/">> ELSE <<>>)

\* Names with "." dropped and ".." taking back the name before it
RECURSIVE Dots(_, _)
Dots(segs, acc) ==
    IF segs = <<>> THEN acc
    ELSE IF Head(segs) = <<".">> THEN Dots(Tail(segs), acc)
    ELSE IF Head(segs) = <<".", ".">>
         THEN Dots(Tail(segs), IF acc = <<>> THEN acc ELSE SubSeq(acc, 1, Len(acc) - 1))
    ELSE Dots(Tail(segs), Append(acc, Head(segs)))

\* node:path resolve(base, rel) for an absolute base and a relative rel
PathResolve(base, rel) ==
    LET segs == Dots(Segments(base) \o Segments(rel), <<>>)
    IN  IF segs = <<>> THEN <<"/">> ELSE Join(segs)

----------------------------------------------------------------------------
(* Constants of the package *)

\* consts.ts: VIRTUAL_MODULE_ID = 'astro:db'
VIRTUAL_MODULE_ID == <<"astro:db">>

WITH_SEED_VIRTUAL_MODULE_ID == <<"astro:db:seed">>

\* const resolved = { virtual: '\0' + ..., seedVirtual: '\0' + ... }
resolved ==
    [virtual     |-> <<"NUL">> \o VIRTUAL_MODULE_ID,
     seedVirtual |-> <<"NUL">> \o WITH_SEED_VIRTUAL_MODULE_ID]

\* runtime/queries.ts: SEED_DEV_FILE_NAME, the conventional seed file names
SEED_DEV_FILE_NAME ==
    << <<"s","e","e","d",".","t","s">>, <<"s","e","e","d",".","j","s">> >>

\* utils.ts: getDbDirectoryUrl(root) = new URL('db/', root)
getDbDirectoryUrl(r) == NewURL(<<"d","b","/">>, r)

\* consts.ts: DB_PATH, the database file relative to the root
DB_PATH == <<".","a","/","c",".","d","b">>

----------------------------------------------------------------------------
(* The plugin's construction (vitePluginDb, lines 47-51) *)

srcDirPathNoSlash ==
    LET p == normalizePath(fileURLToPath(srcDir).value)
    IN  IF Len(p) > 1 /\ p[Len(p)] = "/" THEN SubSeq(p, 1, Len(p) - 1) ELSE p

srcDirPath == normalizePath(fileURLToPath(srcDir).value)

seedFilePaths ==
    [i \in 1..Len(SEED_DEV_FILE_NAME) |->
        normalizePath(
            fileURLToPath(NewURL(SEED_DEV_FILE_NAME[i], getDbDirectoryUrl(root))).value)]

SeedFilePathSet == {seedFilePaths[i] : i \in 1..Len(seedFilePaths)}

----------------------------------------------------------------------------
(* resolveId (lines 55-68) *)

\* What a hook completes with: undefined (decline), a value, or an error
Undefined == [kind |-> "undefined"]
Value(v) == [kind |-> "value", value |-> v]
Throws == [kind |-> "throws"]
\* The call rejects with the error e
Rejects(e) == [kind |-> "throws", error |-> e]

\* The rawImporter argument: absent, or a string
NoImporter == [given |-> FALSE, s |-> <<>>]
Importer(s) == [given |-> TRUE, s |-> s]

\* The outcome of the host's this.resolve(rawImporter): null (unresolvable),
\* a resolved module with its id, or an error
HostNull == [kind |-> "null"]
HostId(p) == [kind |-> "id", id |-> p]
HostThrows == [kind |-> "throws"]
\* The call completed without asking the host
NotAsked == [kind |-> "unasked"]

\* JavaScript truthiness of the rawImporter argument
Truthy(raw) == raw.given /\ raw.s # <<>>

importerInSrcRaw(raw, host) == StartsWith(raw.s, srcDirPath)

\* line 62: importer.id.startsWith(srcDirPath)
importerInSrc(raw, host) == StartsWith(host.id, srcDirPath)

\* The call is suspended at line 59 on this.resolve(rawImporter)
Awaits == [kind |-> "awaits"]

resolveIdStartNoModeCheck(id, raw) ==
    IF id # VIRTUAL_MODULE_ID THEN Undefined
    ELSE IF ~Truthy(raw) THEN Value(resolved.virtual)
    ELSE Awaits

resolveIdStartImporterFirst(id, raw) ==
    IF ~connectToStudio /\ Truthy(raw) THEN Awaits
    ELSE IF id # VIRTUAL_MODULE_ID THEN Undefined
    ELSE Value(resolved.virtual)

\* lines 56-60: resolveId(id, rawImporter) up to its await of this.resolve, or
\* to its end when it does not ask the host
resolveIdStart(id, raw) ==
    IF id # VIRTUAL_MODULE_ID THEN Undefined
    ELSE IF connectToStudio THEN Value(resolved.virtual)
    ELSE IF ~Truthy(raw) THEN Value(resolved.virtual)
    ELSE Awaits

\* lines 59-67: resolveId from its await to its end, host being the outcome of
\* this.resolve(rawImporter)
resolveIdResume(raw, host) ==
    IF host.kind = "throws" THEN Throws
    ELSE IF host.kind = "null" THEN Value(resolved.virtual)
    ELSE IF importerInSrc(raw, host) THEN Value(resolved.seedVirtual)
    ELSE Value(resolved.virtual)

----------------------------------------------------------------------------
(* Table definitions (DBTables) and the local database *)

MaxRows == 1

TableNames == {"A", "B"}
IndexNames == {"i1", "i2"}
NoIndex == "none"
NoFk == "none"
NoDef == [fk |-> NoFk, indexes |-> <<>>, translatable |-> TRUE]
NoTable == [exists |-> FALSE, def |-> NoDef, rows |-> 0]

\* One entry of DBTables: the table's name and its definition
Table(name, fk, idx) ==
    [name |-> name, def |-> [fk |-> fk, indexes |-> idx, translatable |-> TRUE]]

\* An entry with a definition that the DDL generator cannot translate
BadTable(name) ==
    [name |-> name, def |-> [fk |-> NoFk, indexes |-> <<>>, translatable |-> FALSE]]

\* The values of the store in a session without indexes
PlainStoreChoices ==
    { <<>>,
      << Table("A", NoFk, <<>>) >>,
      << Table("B", "A", <<>>), Table("A", NoFk, <<>>) >> }

\* The values the table definition store takes in a session
StoreChoices ==
    { <<>>,
      << Table("A", NoFk, <<>>) >>,
      << Table("B", "A", <<>>), Table("A", NoFk, <<"i1", "i2">>) >>,
      << Table("A", NoFk, <<"i2", "i1">>), Table("B", "A", <<>>) >>,
      << Table("A", NoFk, <<"i1">>), Table("B", NoFk, <<"i1">>) >> }

\* The values of the store in a session with a schema error: no table, two
\* tables with indexes, and a table that translates declared before one that
\* does not
BrokenStoreChoices ==
    { <<>>,
      << Table("B", "A", <<>>), Table("A", NoFk, <<"i1", "i2">>) >>,
      << Table("A", NoFk, <<"i1">>), BadTable("B") >> }

EmptyDb ==
    [tables  |-> [n \in TableNames |-> NoTable],
     indexes |-> [i \in IndexNames |-> NoIndex]]

Exists(d, n) == d.tables[n].exists

\* Rows of a child table that reference no row of the parent
FkViolated(d) ==
    \E n \in TableNames :
        /\ Exists(d, n)
        /\ d.tables[n].rows > 0
        /\ d.tables[n].def.fk # NoFk
        /\ \/ ~Exists(d, d.tables[n].def.fk)
           \/ d.tables[d.tables[n].def.fk].rows = 0

----------------------------------------------------------------------------
(* The DDL generators (runtime/queries.ts) and recreateTables (lines 180-192) *)

Pragma == [op |-> "pragma defer_foreign_keys"]

\* sql.raw(`DROP TABLE IF EXISTS ${name}`)
dropQuery(name) == [op |-> "drop", name |-> name]

\* getCreateTableQuery(name, table)
getCreateTableQuery(name, def) == [op |-> "create", name |-> name, def |-> def]

\* getCreateIndexQueries(name, table): one statement per index, in the order of
\* the definition's indexes
getCreateIndexQueries(name, def) ==
    [k \in 1..Len(def.indexes) |-> [op |-> "index", index |-> def.indexes[k], name |-> name]]

\* lines 183-186: what one iteration of the loop pushes
tableQueriesNoDrop(t) ==
    <<getCreateTableQuery(t.name, t.def)>> \o getCreateIndexQueries(t.name, t.def)

tableQueriesCreateFirst(t) ==
    <<getCreateTableQuery(t.name, t.def), dropQuery(t.name)>>
        \o getCreateIndexQueries(t.name, t.def)

tableQueries(t) ==
    <<dropQuery(t.name), getCreateTableQuery(t.name, t.def)>>
        \o getCreateIndexQueries(t.name, t.def)

\* lines 181-187: setupQueries
RECURSIVE setupQueries(_)
setupQueries(ts) ==
    IF ts = <<>> THEN <<>> ELSE tableQueries(Head(ts)) \o setupQueries(Tail(ts))

\* An error: the statement or the generator call it names, and the cause
NoError == [op |-> "none", name |-> "", why |-> ""]
SqlError(op, name, why) == [op |-> op, name |-> name, why |-> why]

schemaErrorIgnored(ts) == NoError

\* lines 182-186: getCreateTableQuery throws for the first table, in
\* declaration order, whose definition it cannot translate; NoError when it
\* translates them all
schemaError(ts) ==
    LET bad == { i \in 1..Len(ts) : ~ts[i].def.translatable }
    IN  IF bad = {} THEN NoError
        ELSE LET i == CHOOSE k \in bad : \A j \in bad : k <= j
             IN  SqlError("getCreateTableQuery", ts[i].name, "cannot translate")

batchStatementsPragmaLast(ts) == setupQueries(ts) \o <<Pragma>>

batchStatementsPragmaOnly(ts) == <<Pragma>>

\* lines 188-191: the statements handed to db.batch
batchStatements(ts) == <<Pragma>> \o setupQueries(ts)

----------------------------------------------------------------------------
(* The database client: batch(statements) runs them in one transaction *)

\* One statement inside an open transaction tx: ok is FALSE once a statement
\* has failed, d is the database as the transaction sees it, defer is whether
\* foreign keys are checked at the commit only
Abort(tx, s, why) == [tx EXCEPT !.ok = FALSE, !.error = SqlError(s.op, s.name, why)]

ExecStmt(s, tx) ==
    CASE s.op = "pragma defer_foreign_keys" -> [tx EXCEPT !.defer = TRUE]
      [] s.op = "drop" ->
            LET d2 == [tables  |-> [tx.d.tables EXCEPT ![s.name] = NoTable],
                       indexes |-> [i \in IndexNames |->
                                      IF tx.d.indexes[i] = s.name THEN NoIndex
                                      ELSE tx.d.indexes[i]]]
            IN  IF ~tx.defer /\ ~FkViolated(tx.d) /\ FkViolated(d2)
                THEN Abort(tx, s, "FOREIGN KEY constraint failed")
                ELSE [tx EXCEPT !.d = d2]
      [] s.op = "create" ->
            IF Exists(tx.d, s.name) THEN Abort(tx, s, "table already exists")
            ELSE [tx EXCEPT !.d.tables[s.name] = [exists |-> TRUE, def |-> s.def, rows |-> 0]]
      [] s.op = "index" ->
            IF ~Exists(tx.d, s.name) THEN Abort(tx, s, "no such table")
            ELSE IF tx.d.indexes[s.index] # NoIndex
            THEN Abort(tx, s, "index already exists")
            ELSE [tx EXCEPT !.d.indexes[s.index] = s.name]

RECURSIVE ExecAll(_, _)
ExecAll(stmts, tx) ==
    IF stmts = <<>> \/ ~tx.ok THEN tx
    ELSE ExecAll(Tail(stmts), ExecStmt(Head(stmts), tx))

\* batch(statements) against database d: ok and the database after the commit,
\* or not ok, the database as it was (all or nothing) and the error of the
\* statement, or of the commit, that failed
Batch(stmts, d) ==
    LET tx == ExecAll(stmts, [ok |-> TRUE, d |-> d, defer |-> FALSE, error |-> NoError])
    IN  IF ~tx.ok THEN [ok |-> FALSE, d |-> d, error |-> tx.error]
        ELSE IF FkViolated(tx.d)
        THEN [ok |-> FALSE, d |-> d,
              error |-> SqlError("commit", "", "FOREIGN KEY constraint failed")]
        ELSE [ok |-> TRUE, d |-> tx.d, error |-> NoError]

\* The statements run one after the other, each in a transaction of its own,
\* up to the first that fails
RECURSIVE dbRunEach(_, _)
dbRunEach(stmts, d) ==
    IF stmts = <<>> THEN [ok |-> TRUE, d |-> d, error |-> NoError, calls |-> 0]
    ELSE LET r == Batch(<<Head(stmts)>>, d)
         IN  IF r.ok
             THEN LET rest == dbRunEach(Tail(stmts), r.d)
                  IN  [rest EXCEPT !.calls = @ + 1]
             ELSE [ok |-> FALSE, d |-> r.d, error |-> r.error, calls |-> 1]

\* A second db.batch call with the same statements when the first has failed
dbBatchRetry(stmts, d) ==
    LET r == Batch(stmts, d)
    IN  IF r.ok THEN [ok |-> TRUE, d |-> r.d, error |-> r.error, calls |-> 1]
        ELSE LET again == Batch(stmts, r.d)
             IN  [ok |-> again.ok, d |-> again.d, error |-> again.error, calls |-> 2]

\* lines 188-191: every statement goes to the client in one db.batch call;
\* calls is the number of calls made to the client
dbBatch(stmts, d) ==
    LET r == Batch(stmts, d)
    IN  [ok |-> r.ok, d |-> r.d, error |-> r.error, calls |-> 1]

----------------------------------------------------------------------------
(* The module content generators (lines 100-176): the text as its statements *)

\* consts.ts: RUNTIME_IMPORT and RUNTIME_CONFIG_IMPORT, as JSON strings
RUNTIME_IMPORT == "astro-db-runtime"
RUNTIME_CONFIG_IMPORT == "astro-db-runtime-config"

\* The access tokens of the model; local mode has no params.appToken
Tokens == { "token", "token2" }
NoToken == "undefined"

\* utils.ts: getRemoteDatabaseUrl(), the default remote endpoint
getRemoteDatabaseUrl == "https://db.services.astro.build"

\* An entry of the seed file list: a string, or a URL
SeedString(str) == [isUrl |-> FALSE, s |-> str]
SeedUrl(path) == [isUrl |-> TRUE, s |-> path]

\* The values the integration seed file list takes in a session
SeedFileChoices ==
    { <<>>,
      << SeedString(<<".", "/", "x">>) >>,
      << SeedUrl(<<"/", "q", "/", "y">>), SeedString(<<"i", "/", "z">>),
         SeedString(<<".", "/", "x">>) >> }

getStringifiedCollectionExportsTail(ts) ==
    [i \in 1..(Len(ts) - 1) |->
        [stmt |-> "export const", name |-> ts[i + 1].name, call |-> "asDrizzleTable",
         tableName |-> ts[i + 1].name, json |-> ts[i + 1].def]]

\* lines 167-176
getStringifiedCollectionExports(ts) ==
    [i \in 1..Len(ts) |->
        [stmt |-> "export const", name |-> ts[i].name, call |-> "asDrizzleTable",
         tableName |-> ts[i].name, json |-> ts[i].def]]

resolveSeedIdAlways(r, id) == PathResolve(fileURLToPath(r).value, id)

\* line 116: const resolveId = (id) => ...
resolveSeedId(r, id) ==
    IF Len(id) > 0 /\ id[1] = "." THEN PathResolve(fileURLToPath(r).value, id) ELSE id

\* lines 111-115
userSeedFilePaths ==
    [i \in 1..Len(SEED_DEV_FILE_NAME) |->
        NewURL(SEED_DEV_FILE_NAME[i], getDbDirectoryUrl(FileURL(<<"/">>))).pathname]

integrationSeedImportsReversed(r, sf) ==
    [i \in 1..Len(sf) |->
        [thunk |-> "() => import",
         path  |-> IF sf[Len(sf) + 1 - i].isUrl THEN sf[Len(sf) + 1 - i].s
                   ELSE resolveSeedId(r, sf[Len(sf) + 1 - i].s)]]

\* lines 117-122
integrationSeedImports(r, sf) ==
    [i \in 1..Len(sf) |->
        [thunk |-> "() => import",
         path  |-> IF sf[i].isUrl THEN sf[i].s ELSE resolveSeedId(r, sf[i].s)]]

getLocalVirtualModContentsSeedLast(r, ts, sf, shouldSeed) ==
    << [stmt |-> "import", names |-> <<"asDrizzleTable", "createLocalDatabaseClient">>,
        from |-> RUNTIME_IMPORT] >>
    \o (IF shouldSeed
        THEN << [stmt |-> "import", names |-> <<"seedLocal">>, from |-> RUNTIME_IMPORT] >>
        ELSE <<>>)
    \o << [stmt |-> "const dbUrl", value |-> href(NewURL(DB_PATH, r))],
          [stmt |-> "export const db", call |-> "createLocalDatabaseClient",
           arg |-> "dbUrl"] >>
    \o << [stmt |-> "export *", from |-> RUNTIME_CONFIG_IMPORT] >>
    \o getStringifiedCollectionExports(ts)
    \o (IF shouldSeed
        THEN << [stmt |-> "await seedLocal",
                 userSeedGlob |-> [glob |-> userSeedFilePaths, eager |-> TRUE],
                 integrationSeedImports |-> integrationSeedImports(r, sf)] >>
        ELSE <<>>)

\* lines 100-144
getLocalVirtualModContents(r, ts, sf, shouldSeed) ==
    << [stmt |-> "import", names |-> <<"asDrizzleTable", "createLocalDatabaseClient">>,
        from |-> RUNTIME_IMPORT] >>
    \o (IF shouldSeed
        THEN << [stmt |-> "import", names |-> <<"seedLocal">>, from |-> RUNTIME_IMPORT] >>
        ELSE <<>>)
    \o << [stmt |-> "const dbUrl", value |-> href(NewURL(DB_PATH, r))],
          [stmt |-> "export const db", call |-> "createLocalDatabaseClient",
           arg |-> "dbUrl"] >>
    \o (IF shouldSeed
        THEN << [stmt |-> "await seedLocal",
                 userSeedGlob |-> [glob |-> userSeedFilePaths, eager |-> TRUE],
                 integrationSeedImports |-> integrationSeedImports(r, sf)] >>
        ELSE <<>>)
    \o << [stmt |-> "export *", from |-> RUNTIME_CONFIG_IMPORT] >>
    \o getStringifiedCollectionExports(ts)

\* lines 146-165
getStudioVirtualModContentsFixedUrl(ts, token) ==
    << [stmt |-> "import", names |-> <<"asDrizzleTable", "createRemoteDatabaseClient">>,
        from |-> RUNTIME_IMPORT],
       [stmt |-> "export const db", call |-> "await createRemoteDatabaseClient",
        token |-> token,
        url |-> [env |-> "undefined", default |-> getRemoteDatabaseUrl]],
       [stmt |-> "export *", from |-> RUNTIME_CONFIG_IMPORT] >>
    \o getStringifiedCollectionExports(ts)

getStudioVirtualModContents(ts, token) ==
    << [stmt |-> "import", names |-> <<"asDrizzleTable", "createRemoteDatabaseClient">>,
        from |-> RUNTIME_IMPORT],
       [stmt |-> "export const db", call |-> "await createRemoteDatabaseClient",
        token |-> token,
        url |-> [env |-> "import.meta.env.ASTRO_STUDIO_REMOTE_DB_URL",
                 default |-> getRemoteDatabaseUrl]],
       [stmt |-> "export *", from |-> RUNTIME_CONFIG_IMPORT] >>
    \o getStringifiedCollectionExports(ts)

----------------------------------------------------------------------------
(* load (lines 69-92) *)

isSeedFileLoadByName(id) ==
    /\ Segments(id) # <<>>
    /\ \E i \in 1..Len(SEED_DEV_FILE_NAME) :
          Segments(id)[Len(Segments(id))] = SEED_DEV_FILE_NAME[i]

isSeedFileLoadLocalOnly(id) ==
    ~connectToStudio /\ \E i \in 1..Len(seedFilePaths) : id = seedFilePaths[i]

isSeedFileLoadOrSeedModule(id) ==
    \/ \E i \in 1..Len(seedFilePaths) : id = seedFilePaths[i]
    \/ id = resolved.seedVirtual

\* line 71: seedFilePaths.some((f) => id === f)
isSeedFileLoad(id) == \E i \in 1..Len(seedFilePaths) : id = seedFilePaths[i]

loadContentsSeedAlways(id) ==
    IF id # resolved.virtual /\ id # resolved.seedVirtual THEN Undefined
    ELSE IF connectToStudio
         THEN Value(getStudioVirtualModContents(tables, appToken))
    ELSE Value(getLocalVirtualModContents(root, tables, seedFiles, TRUE))

loadContentsAtConstruction(id) ==
    IF id # resolved.virtual /\ id # resolved.seedVirtual THEN Undefined
    ELSE IF connectToStudio
         THEN Value(getStudioVirtualModContents(<<>>, appToken))
    ELSE Value(getLocalVirtualModContents(root, <<>>, <<>>,
                                          id = resolved.seedVirtual))

\* lines 78-91: what load completes with once past the seed file check
loadContents(id) ==
    IF id # resolved.virtual /\ id # resolved.seedVirtual THEN Undefined
    ELSE IF connectToStudio
         THEN Value(getStudioVirtualModContents(tables, appToken))
    ELSE Value(getLocalVirtualModContents(root, tables, seedFiles,
                                          id = resolved.seedVirtual))

loadDbUrlInDbDir(r) == href(NewURL(DB_PATH, getDbDirectoryUrl(r)))

\* line 73: new URL(DB_PATH, params.root).href
loadDbUrl(r) == href(NewURL(DB_PATH, r))

\* line 73: createLocalDatabaseClient({ dbUrl }) inside load: a new client for
\* the database file at url, made being how many clients were constructed
\* before it
createLocalDatabaseClient(url, made) == [dbUrl |-> url, n |-> made + 1]

resumesUnsettled(p) == TRUE

afterAwaitGeneric(p) ==
    IF p.batch \in {"failed", "unissued"} THEN Rejects(SqlError("batch", "", "resync failed"))
    ELSE loadContents(p.id)

\* lines 72-91: the await of line 72 throws what recreateTables rejected with
\* (the error of its batch, or the error of its statement generator), nothing
\* catches it; else the call goes on to the dispatch on the id
afterAwait(p) ==
    IF p.batch \in {"failed", "unissued"} THEN Rejects(p.error)
    ELSE loadContents(p.id)

\* await: the call resumes once recreateTables has settled, with its batch
\* committed or failed, or without a batch
resumes(p) == p.batch # "inflight"

----------------------------------------------------------------------------
(* The configurations, module ids and importers of the model *)

\* The project directories /p/ and "/p/a b/", the space encoded in the URL
Roots ==
    { FileURL(<<"/", "p", "/">>),
      FileURL(<<"/", "p", "/", "a", "%", "2", "0", "b", "/">>) }

\* The project directory as a path
rootPath == fileURLToPath(root).value

\* srcDir relative to the root: "./s", "." and "./db", each resolved by the
\* configuration to a directory URL that ends with "/"
SrcDirRels == { <<"s", "/">>, <<>>, <<"d", "b", "/">> }

\* Files relative to the root: in the directory s, in a directory below it, in
\* the sibling s2, the file named s, a seed file, a file of the root, one in db
RelFiles ==
    { <<"s", "/", "a">>, <<"s", "/", "c", "/", "a">>, <<"s", "2", "/", "a">>,
      <<"s">>, <<"d", "b", "/">> \o SEED_DEV_FILE_NAME[1], <<"a">>,
      <<"d", "b", "/", "x">> }

OutsideFile == <<"/", "o", "/", "a">>

HostIds == { rootPath \o f : f \in RelFiles } \cup { OutsideFile }

HostOutcomes == { HostNull, HostThrows } \cup { HostId(p) : p \in HostIds }

RawImporters ==
    { NoImporter, Importer(<<>>), Importer(rootPath \o <<"s", "/", "a">>),
      Importer(OutsideFile) }

\* One seed file path, the virtual ids and a seed file name outside db
StoreLoadIds ==
    { seedFilePaths[1], resolved.virtual, resolved.seedVirtual,
      rootPath \o SEED_DEV_FILE_NAME[1] }

RequestedIds == { VIRTUAL_MODULE_ID, WITH_SEED_VIRTUAL_MODULE_ID, <<"x">> }

\* One seed file path and a seed file name outside db
LoadIds == { seedFilePaths[1], rootPath \o SEED_DEV_FILE_NAME[1] }

----------------------------------------------------------------------------
(* The state machine *)

\* At most this many database clients are constructed in a session
MaxClients == 2

\* At most this many resolveId calls are suspended on the host at a time
MaxAsking == 2

NoRes ==
    [called |-> FALSE, id |-> <<>>, raw |-> NoImporter, host |-> NotAsked,
     result |-> Undefined]

NoRet == [called |-> FALSE, id |-> <<>>, batch |-> "none", result |-> Undefined]

\* The state after vitePluginDb(params), the root being one of roots and
\* srcDir one of rels under the root, the access token one of tokens
Configured(roots, rels, tokens) ==
    /\ connectToStudio \in BOOLEAN
    /\ appToken \in (IF connectToStudio THEN tokens ELSE { NoToken })
    /\ root \in roots
    /\ srcDir \in { NewURL(rel, root) : rel \in rels }
    /\ fileURLToPath(srcDir).kind = "value"
    /\ \A i \in 1..Len(SEED_DEV_FILE_NAME) :
          fileURLToPath(NewURL(SEED_DEV_FILE_NAME[i], getDbDirectoryUrl(root))).kind
              = "value"
    /\ res = NoRes
    /\ asking = <<>>
    /\ tables = <<>>
    /\ seedFiles = <<>>
    /\ db = EmptyDb
    /\ clients = 0
    /\ pending = {}
    /\ ret = NoRet

\* resolveId(id, rawImporter) up to its await of this.resolve(rawImporter), or
\* to its end when it has none
ResolveCall(id, raw) ==
    /\ IF resolveIdStart(id, raw) = Awaits
       THEN /\ Len(asking) < MaxAsking
            /\ asking' = Append(asking, [id |-> id, raw |-> raw])
            /\ UNCHANGED res
       ELSE /\ res' = [called |-> TRUE, id |-> id, raw |-> raw, host |-> NotAsked,
                       result |-> resolveIdStart(id, raw)]
            /\ UNCHANGED asking
    /\ UNCHANGED <<connectToStudio, appToken, root, srcDir, tables, seedFiles, db, clients, pending, ret>>

\* The host answers the this.resolve of the i-th suspended call with host, and
\* the call runs from its await to its end
ResolveResume(i, host) ==
    /\ i \in 1..Len(asking)
    /\ res' = [called |-> TRUE, id |-> asking[i].id, raw |-> asking[i].raw,
               host |-> host, result |-> resolveIdResume(asking[i].raw, host)]
    /\ asking' = SubSeq(asking, 1, i - 1) \o SubSeq(asking, i + 1, Len(asking))
    /\ UNCHANGED <<connectToStudio, appToken, root, srcDir, tables, seedFiles, db, clients, pending, ret>>

\* load(id) up to its await of recreateTables (line 72), or to its end when it
\* is no seed file load. A seed file load constructs a client and calls
\* recreateTables, which issues its batch, or throws while it builds the
\* statements and issues none; the call is suspended in both cases.
LoadCall(id) ==
    /\ IF isSeedFileLoad(id)
       THEN /\ clients < MaxClients
            /\ clients' = clients + 1
            /\ pending' = pending \cup
                    { IF schemaError(tables) # NoError
                      THEN [id |-> id, dbUrl |-> loadDbUrl(root),
                            client |-> createLocalDatabaseClient(loadDbUrl(root),
                                                                 clients),
                            tables |-> <<>>, stmts |-> <<>>, batch |-> "unissued",
                            error |-> schemaError(tables), calls |-> 0]
                      ELSE [id |-> id, dbUrl |-> loadDbUrl(root),
                            client |-> createLocalDatabaseClient(loadDbUrl(root),
                                                                 clients),
                            tables |-> tables,
                            stmts |-> batchStatements(tables), batch |-> "inflight",
                            error |-> NoError, calls |-> 0] }
            /\ UNCHANGED ret
       ELSE /\ ret' = [called |-> TRUE, id |-> id, batch |-> "none",
                       result |-> loadContents(id)]
            /\ UNCHANGED <<clients, pending>>
    /\ UNCHANGED <<connectToStudio, appToken, root, srcDir, res, asking, tables, seedFiles, db>>

\* The client runs the batch of a suspended call: it commits or fails
BatchSettle(p) ==
    /\ p.batch = "inflight"
    /\ LET r == dbBatch(p.stmts, db)
       IN  /\ db' = r.d
           /\ pending' = (pending \ {p}) \cup
                    { [p EXCEPT !.batch = IF r.ok THEN "committed" ELSE "failed",
                                !.error = r.error, !.calls = r.calls,
                                !.tables = <<>>, !.stmts = <<>>] }
    /\ UNCHANGED <<connectToStudio, appToken, root, srcDir, res, asking, tables, seedFiles, clients, ret>>

\* load(id) from its await to its end: the batch's error, or lines 78-91
LoadResume(p) ==
    /\ resumes(p)
    /\ ret' = [called |-> TRUE, id |-> p.id, batch |-> p.batch,
               result |-> afterAwait(p)]
    /\ pending' = pending \ {p}
    /\ UNCHANGED <<connectToStudio, appToken, root, srcDir, res, asking, tables, seedFiles, db, clients>>

\* A configuration reload replaces the table definitions
EditTables(ts) ==
    /\ ts # tables
    /\ tables' = ts
    /\ UNCHANGED <<connectToStudio, appToken, root, srcDir, res, asking, seedFiles, db, clients, pending, ret>>

\* An integration changes the seed file list, which local mode has
EditSeedFiles(sf) ==
    /\ ~connectToStudio
    /\ sf # seedFiles
    /\ seedFiles' = sf
    /\ UNCHANGED <<connectToStudio, appToken, root, srcDir, res, asking, tables, db, clients, pending, ret>>

\* A seed script or the application inserts a row; foreign keys are enforced
InsertRow(n) ==
    /\ Exists(db, n)
    /\ db.tables[n].rows < MaxRows
    /\ LET d2 == [db EXCEPT !.tables[n].rows = @ + 1]
       IN  /\ ~FkViolated(d2)
           /\ db' = d2
    /\ UNCHANGED <<connectToStudio, appToken, root, srcDir, res, asking, tables, seedFiles, clients, pending, ret>>

\* Every configuration
Init == Configured(Roots, SrcDirRels, { "token" })

\* The default layout: srcDir is "./s" under the root
InitDefault == Configured(Roots, { <<"s", "/">> }, Tokens)

\* The default layout under the root "/p/"
InitProject ==
    Configured({ FileURL(<<"/", "p", "/">>) }, { <<"s", "/">> }, { "token" })

\* The default layout under each root, one access token
InitStore == Configured(Roots, { <<"s", "/">> }, { "token" })

NextResolve ==
    \/ \E id \in RequestedIds, raw \in RawImporters : ResolveCall(id, raw)
    \/ \E i \in 1..Len(asking), host \in HostOutcomes : ResolveResume(i, host)

Next ==
    \/ \E id \in LoadIds : LoadCall(id)
    \/ \E p \in pending : BatchSettle(p)
    \/ \E p \in pending : LoadResume(p)
    \/ \E ts \in StoreChoices : EditTables(ts)
    \/ \E n \in TableNames : InsertRow(n)

NextRender ==
    \/ \E id \in {resolved.virtual, resolved.seedVirtual} : LoadCall(id)
    \/ \E ts \in StoreChoices : EditTables(ts)
    \/ \E sf \in SeedFileChoices : EditSeedFiles(sf)

NextStore ==
    \/ \E id \in StoreLoadIds : LoadCall(id)
    \/ \E p \in pending : BatchSettle(p)
    \/ \E p \in pending : LoadResume(p)
    \/ \E ts \in PlainStoreChoices : EditTables(ts)
    \/ \E sf \in SeedFileChoices : EditSeedFiles(sf)

NextConcurrent ==
    \/ \E id \in SeedFilePathSet : LoadCall(id)
    \/ \E p \in pending : BatchSettle(p)
    \/ \E p \in pending : LoadResume(p)
    \/ \E ts \in PlainStoreChoices : EditTables(ts)

NextResync ==
    \/ \E id \in StoreLoadIds : LoadCall(id)
    \/ \E p \in pending : BatchSettle(p)
    \/ \E p \in pending : LoadResume(p)
    \/ \E ts \in BrokenStoreChoices : EditTables(ts)
    \/ \E id \in RequestedIds :
          ResolveCall(id, Importer(rootPath \o <<"s", "/", "a">>))
    \/ \E i \in 1..Len(asking) :
          ResolveResume(i, HostId(rootPath \o <<"s", "/", "a">>))

\* The load side of a session: load calls, their batches, the configuration
\* reloads and the writes of the application
Spec == InitProject /\ [][Next]_vars

\* The resolve side of a session: resolveId calls, in every configuration
ResolveSpec == Init /\ [][NextResolve]_vars

\* The rendering side of a session: loads of the two virtual modules
RenderSpec == InitDefault /\ [][NextRender]_vars

\* The stores of a session: loads of every kind while the table definitions
\* and the seed file list change, under each root; no rows are written
StoreSpec == InitStore /\ [][NextStore]_vars

\* The seed file loads of a session, of both seed file paths, that the host
\* starts while others are suspended
ConcurrentSpec == InitProject /\ [][NextConcurrent]_vars

\* The resynchronizes of a session: loads of every kind and resolveId calls,
\* while the table definitions change and may have a table that does not
\* translate; no rows are written
ResyncSpec == InitProject /\ [][NextResync]_vars

----------------------------------------------------------------------------
(* Properties of resolveId, checked under ResolveSpec *)

\* file is a descendant of the directory dir: dir's names are a proper prefix
\* of file's names
UnderDir(file, dir) ==
    LET f == Segments(file)
        d == Segments(dir)
    IN  /\ Len(d) < Len(f)
        /\ \A i \in 1..Len(d) : f[i] = d[i]

\* The last resolveId call had an importer that the host resolved to a file
\* under the source directory
ImporterUnderSrc ==
    /\ Truthy(res.raw)
    /\ res.host.kind = "id"
    /\ UnderDir(res.host.id, fileURLToPath(srcDir).value)

\* The last resolveId call had an importer that the host resolved to a file of
\* the directory whose name is the source directory's name followed by "2"
ImporterInSibling ==
    /\ Truthy(res.raw)
    /\ res.host.kind = "id"
    /\ LET d == Segments(fileURLToPath(srcDir).value)
           f == Segments(res.host.id)
       IN  /\ d # <<>>
           /\ Len(f) = Len(d) + 1
           /\ SubSeq(f, 1, Len(d)) = [d EXCEPT ![Len(d)] = @ \o <<"2">>]

\* C1: in local mode, resolveId of the reserved specifier returns the
\* seed-bearing id exactly when the importer is given and the host resolves it
\* to a path under the source directory; for every other importer (absent,
\* empty, unresolvable, outside the source directory) it returns the plain id.
C1_LocalResolveBySrcDir ==
    (~connectToStudio /\ res.called /\ res.id = VIRTUAL_MODULE_ID
        /\ res.result.kind # "throws")
    => IF ImporterUnderSrc
       THEN res.result = Value(resolved.seedVirtual)
       ELSE res.result = Value(resolved.virtual)

C1_Witness ==
    /\ ~connectToStudio /\ res.called /\ res.id = VIRTUAL_MODULE_ID
    /\ res.host = HostId(rootPath \o <<"s", "/", "c", "/", "a">>)
    /\ srcDir = NewURL(<<"s", "/">>, root)
    /\ res.result = Value(resolved.seedVirtual)

\* C2: in remote-managed mode resolveId of the reserved specifier returns the
\* plain id for every importer, and no resolveId call of the session returns
\* the seed-bearing id.
C2_RemoteResolvePlain ==
    (connectToStudio /\ res.called)
    => /\ res.result # Value(resolved.seedVirtual)
       /\ res.id = VIRTUAL_MODULE_ID => res.result = Value(resolved.virtual)

C2_Witness ==
    /\ connectToStudio /\ res.called /\ res.id = VIRTUAL_MODULE_ID
    /\ Truthy(res.raw) /\ UnderDir(res.raw.s, fileURLToPath(srcDir).value)
    /\ res.result = Value(resolved.virtual)

\* C3: whenever resolveId returns the seed-bearing id, the resolved importer is
\* a file inside the source directory; an importer in a sibling directory whose
\* path begins with the same characters receives the plain id.
C3_SeedOnlyInsideSrcDir ==
    /\ (res.called /\ res.result = Value(resolved.seedVirtual)) => ImporterUnderSrc
    /\ (res.called /\ res.id = VIRTUAL_MODULE_ID /\ ImporterInSibling)
            => res.result = Value(resolved.virtual)

C3_Witness ==
    /\ ~connectToStudio /\ res.called /\ res.id = VIRTUAL_MODULE_ID
    /\ ImporterInSibling
    /\ LET dir == fileURLToPath(srcDir).value
       IN  StartsWith(res.host.id, SubSeq(dir, 1, Len(dir) - 1))
    /\ res.result = Value(resolved.virtual)

\* C4: a conventionally named seed file that imports the reserved specifier
\* never receives the seed-bearing id, in every configuration of root and
\* source directory.
C4_SeedFileNeverSeedBearing ==
    (res.called /\ Truthy(res.raw) /\ res.host.kind = "id"
        /\ res.host.id \in SeedFilePathSet)
    => res.result # Value(resolved.seedVirtual)

----------------------------------------------------------------------------
(* Properties of load and recreateTables, checked under Spec (C6 and C14
   under StoreSpec) *)

\* The call of the pending record p returns in this step
Returns(p) == p \in pending /\ p.client \notin { q.client : q \in pending' }

\* The batch of the pending record p commits in this step
Commits(p) ==
    /\ p \in pending /\ p.batch = "inflight"
    /\ \E q \in pending' : q.client = p.client /\ q.batch = "committed"

\* The batch of the pending record p commits or fails in this step
Settles(p) ==
    /\ p \in pending /\ p.batch = "inflight"
    /\ \E q \in pending' : q.client = p.client /\ q.batch \in {"committed", "failed"}

\* The call of the pending record q starts in this step and suspends
Suspends(q) == q \in pending' /\ q.client \notin { p.client : p \in pending }

\* C5: in either mode, load of a conventional seed file path issues a
\* resynchronize batch against the local database file with the table
\* definitions current at the call, and returns only after that batch, and then
\* declines (or fails with the batch).
C5_SeedFileLoadResyncs ==
    [][ /\ \A q \in pending' : (Suspends(q) /\ q.id \in SeedFilePathSet)
             => /\ q.batch = "inflight"
                /\ q.tables = tables
                /\ q.dbUrl = <<"f", "i", "l", "e", ":", "/", "/">>
                                \o root.pathname \o DB_PATH
        /\ (ret' # ret /\ ret'.id \in SeedFilePathSet)
             => /\ ret'.batch \in {"committed", "failed"}
                /\ IF ret'.batch = "failed" THEN ret'.result.kind = "throws"
                   ELSE ret'.result = Undefined
      ]_vars

C5_Witness ==
    /\ connectToStudio /\ ret.called /\ ret.id \in SeedFilePathSet
    /\ ret.batch = "committed" /\ ret.result = Undefined
    /\ Exists(db, "A")

\* C6 as stated: in local mode every load of the seed-bearing virtual id
\* resynchronizes local storage as part of that load.
C6_SeedModuleLoadResyncs ==
    (~connectToStudio /\ ret.called /\ ret.id = resolved.seedVirtual)
    => ret.batch \in {"committed", "failed"}

\* C6 amended: in local mode a load of the seed-bearing virtual id issues no
\* batch and leaves the database as it is; it returns the local module text
\* with the seed invocation.
C6_SeedModuleLoadRendersOnly ==
    [][ (~connectToStudio /\ ret' # ret /\ ret'.id = resolved.seedVirtual)
        => /\ ret'.batch = "none"
           /\ db' = db /\ pending' = pending
           /\ ret'.result.kind = "value"
           /\ \E i \in 1..Len(ret'.result.value) :
                  ret'.result.value[i].stmt = "await seedLocal"
      ]_vars

C6_Witness ==
    /\ ~connectToStudio /\ ret.called /\ ret.id = resolved.seedVirtual
    /\ ret.batch = "none" /\ ret.result.kind = "value"
    /\ tables # <<>> /\ ~Exists(db, tables[1].name)

\* C7: a load call that awaits a resynchronize batch returns only after that
\* batch has committed or failed.
C7_ReturnsAfterBatchSettled ==
    [][ \A p \in pending : Returns(p) =>
            /\ p.batch \in {"committed", "failed"}
            /\ ret'.id = p.id /\ ret'.batch = p.batch
      ]_vars

C7_Witness ==
    /\ ret.called /\ ret.id \in SeedFilePathSet
    /\ ret.batch = "failed" /\ ret.result.kind = "throws"

\* Where the statements of the k-th table start in the batch
RECURSIVE BlockStart(_, _)
BlockStart(ts, k) ==
    IF k = 1 THEN 2 ELSE BlockStart(ts, k - 1) + 2 + Len(ts[k - 1].def.indexes)

\* C8: in every resynchronize batch the deferred-foreign-key statement is the
\* first statement and occurs once; then, for each table in declaration order,
\* come its DROP, its CREATE and its CREATE INDEX statements in generator
\* order, with nothing between the tables' blocks.
C8_BatchOrder ==
    \A p \in pending : p.batch = "inflight" =>
        LET st == p.stmts
            ts == p.tables
        IN  /\ Len(st) = BlockStart(ts, Len(ts) + 1) - 1
            /\ st[1] = Pragma
            /\ \A i \in 2..Len(st) : st[i] # Pragma
            /\ \A k \in 1..Len(ts) :
                  LET b == BlockStart(ts, k)
                      ix == ts[k].def.indexes
                  IN  /\ st[b] = [op |-> "drop", name |-> ts[k].name]
                      /\ st[b + 1] = [op |-> "create", name |-> ts[k].name,
                                        def |-> ts[k].def]
                      /\ \A m \in 1..Len(ix) :
                            st[b + 1 + m] = [op |-> "index", index |-> ix[m],
                                             name |-> ts[k].name]

C8_Witness ==
    \E p \in pending :
        /\ p.batch = "inflight" /\ Len(p.tables) = 2
        /\ p.tables[1].name = "B"
        /\ p.tables[2].def.indexes = <<"i1", "i2">>
        /\ Len(p.stmts) = 7

\* The tables and indexes of a database, without the rows
Schema(d) ==
    [tables  |-> [n \in TableNames |-> [exists |-> d.tables[n].exists,
                                        def |-> d.tables[n].def]],
     indexes |-> d.indexes]

\* C9: when a resynchronize has run against any database state, a second one
\* with the same definitions right after it ends as the first did, leaves the
\* schema the first left, and after a commit does not fail on the tables that
\* now exist.
C9_ResyncIdempotent ==
    [][ \A p \in pending : Settles(p) =>
            LET again == Batch(batchStatements(p.tables), db')
            IN  /\ again.ok = Commits(p)
                /\ Schema(again.d) = Schema(db')
      ]_vars

C9_Witness ==
    /\ ret.called /\ ret.batch = "committed"
    /\ \E p \in pending : p.batch = "committed"
    /\ Exists(db, "A") /\ Exists(db, "B")
    /\ db.indexes["i1"] = "A"

\* C10: after a resynchronize that commits, every table named in the
\* definitions exists, with the declared definition and with no rows, whatever
\* rows it held before.
C10_NoRowsSurvive ==
    [][ \A p \in pending : Commits(p) =>
            \A i \in 1..Len(p.tables) :
                /\ db'.tables[p.tables[i].name].exists
                /\ db'.tables[p.tables[i].name].def = p.tables[i].def
                /\ db'.tables[p.tables[i].name].rows = 0
      ]_vars

\* A batch that will commit is in flight over tables that hold rows
C10_Witness ==
    \E p \in pending :
        /\ p.batch = "inflight"
        /\ Batch(p.stmts, db).ok
        /\ Len(p.tables) = 2
        /\ \A i \in 1..Len(p.tables) : db.tables[p.tables[i].name].rows > 0

\* C11: when a statement of a resynchronize batch fails, or its commit does,
\* no statement of the batch takes effect: the database after the failed
\* resynchronize is the database before it, tables, indexes and rows.
C11_FailedBatchChangesNothing ==
    [][ \A p \in pending : (Settles(p) /\ ~Commits(p)) => db' = db ]_vars

\* A batch has failed at the index of its second table, after the statements
\* that drop and create the first; the first table still holds its row and
\* the second was not created
C11_Witness ==
    /\ \E p \in pending :
          /\ p.batch = "failed"
          /\ p.error = SqlError("index", "B", "index already exists")
    /\ db.tables["A"].rows > 0
    /\ ~Exists(db, "B")

\* C12: when the resynchronize of load(id) fails, the call fails with the
\* error the batch failed with, unchanged; it returns neither module text nor
\* a decline.
C12_LoadFailsWithBatchError ==
    [][ \A p \in pending :
            /\ (Settles(p) /\ ~Commits(p))
                  => \E q \in pending' :
                        /\ q.id = p.id
                        /\ q.error = Batch(p.stmts, db).error
                        /\ q.error # NoError
            /\ (Returns(p) /\ p.batch = "failed")
                  => /\ ret'.id = p.id
                     /\ ret'.result = Rejects(p.error)
      ]_vars

C12_Witness ==
    /\ ret.called /\ ret.id \in SeedFilePathSet /\ ret.batch = "failed"
    /\ ret.result = Rejects(SqlError("index", "B", "index already exists"))

\* The definitions ts declare a table with a foreign key first and the table
\* it references, which has none, second
ChildBeforeParent(ts) ==
    /\ Len(ts) = 2
    /\ ts[1].def.fk = ts[2].name
    /\ ts[2].def.fk = NoFk

\* C13: with a table B that has a foreign key into a table A, declared in the
\* order B, A, a resynchronize that starts from the empty database, or from a
\* database that holds both tables, commits, and afterwards both tables exist
\* with their declared definitions.
C13_ForeignKeyOrderCommits ==
    [][ \A p \in pending :
            (/\ Settles(p)
             /\ ChildBeforeParent(p.tables)
             /\ \/ db = EmptyDb
                \/ \A i \in 1..2 : Exists(db, p.tables[i].name))
            => /\ Commits(p)
               /\ \A i \in 1..2 :
                     /\ db'.tables[p.tables[i].name].exists
                     /\ db'.tables[p.tables[i].name].def = p.tables[i].def
      ]_vars

\* The definitions B, A have been committed: both tables exist, A with the
\* indexes of that declaration and B with its foreign key
C13_Witness ==
    /\ ret.called /\ ret.batch = "committed"
    /\ ChildBeforeParent(tables)
    /\ \A i \in 1..2 :
          /\ db.tables[tables[i].name].exists
          /\ db.tables[tables[i].name].def = tables[i].def

----------------------------------------------------------------------------
(* Properties of the module texts *)

\* The statements of the text t that satisfy Is
Where(t, Is(_)) == { i \in 1..Len(t) : Is(t[i]) }

IsSeedAwait(st) == st.stmt = "await seedLocal"
IsSeedImport(st) == st.stmt = "import" /\ \E k \in 1..Len(st.names) : st.names[k] = "seedLocal"
IsTableExport(st) == st.stmt = "export const"
IsLocalClient(st) == st.stmt = "export const db" /\ st.call = "createLocalDatabaseClient"
IsRemoteClient(st) == st.stmt = "export const db" /\ st.call = "await createRemoteDatabaseClient"

\* The text t invokes the seed routine
HasSeedInvocation(t) == Where(t, IsSeedAwait) # {}

\* t is the local variant, t is the remote variant: by the client it constructs
IsLocalText(t) == Where(t, IsLocalClient) # {} /\ Where(t, IsRemoteClient) = {}
IsRemoteText(t) == Where(t, IsRemoteClient) # {} /\ Where(t, IsLocalClient) = {}

VirtualIds == { resolved.virtual, resolved.seedVirtual }

\* C14: a load that completes declines for every id that is neither of the
\* two virtual ids; for a virtual id it returns module text: the remote variant
\* in remote-managed mode, else the local variant, which invokes the seed
\* routine exactly when the id is the seed-bearing one.
C14_LoadDispatch ==
    (ret.called /\ ret.result.kind # "throws")
    => IF ret.id \notin VirtualIds THEN ret.result = Undefined
       ELSE /\ ret.result.kind = "value"
            /\ IF connectToStudio THEN IsRemoteText(ret.result.value)
               ELSE /\ IsLocalText(ret.result.value)
                    /\ HasSeedInvocation(ret.result.value)
                            <=> ret.id = resolved.seedVirtual

C14_Witness ==
    /\ ~connectToStudio /\ ret.called /\ ret.id = resolved.virtual
    /\ ret.result.kind = "value"
    /\ IsLocalText(ret.result.value) /\ ~HasSeedInvocation(ret.result.value)
    /\ \E p \in pending : p.batch = "committed"

\* C15: the local module text holds the seed invocation, and the import of
\* the seed routine, exactly when it is rendered with the seed (the load of
\* the seed-bearing id); the invocation is awaited once, after the client is
\* constructed and before every table export, for every table definitions and
\* seed file list.
C15_SeedInvocationPlacement ==
    (~connectToStudio /\ ret.called /\ ret.id \in VirtualIds)
    => LET t == ret.result.value
       IN  /\ HasSeedInvocation(t) <=> ret.id = resolved.seedVirtual
           /\ Where(t, IsSeedImport) # {} <=> ret.id = resolved.seedVirtual
           /\ Cardinality(Where(t, IsSeedAwait)) <= 1
           /\ \A a \in Where(t, IsSeedAwait) :
                 /\ \A e \in Where(t, IsTableExport) : a < e
                 /\ \A c \in Where(t, IsLocalClient) : c < a
                 /\ \A m \in Where(t, IsSeedImport) : m < a

C15_Witness ==
    /\ ~connectToStudio /\ ret.called /\ ret.id = resolved.seedVirtual
    /\ LET t == ret.result.value
       IN  /\ Cardinality(Where(t, IsTableExport)) = 2
           /\ \E a \in Where(t, IsSeedAwait) :
                 /\ t[a].integrationSeedImports # <<>>
                 /\ \A e \in Where(t, IsTableExport) : a < e

\* The statement has a glob import
HasGlob(st) == "userSeedGlob" \in DOMAIN st

\* C16: the remote module text has no seed invocation, no import of the seed
\* routine and no glob import; it constructs the remote client once, from the
\* access token of the configuration and the endpoint expression: the run-time
\* environment override, else the fixed default. In remote-managed mode load
\* returns this text for the plain and for the seed-bearing virtual id.
C16_RemoteText ==
    (connectToStudio /\ ret.called /\ ret.id \in VirtualIds)
    => /\ ret.result.kind = "value"
       /\ LET t == ret.result.value
          IN  /\ IsRemoteText(t)
              /\ Where(t, IsSeedAwait) = {}
              /\ Where(t, IsSeedImport) = {}
              /\ Where(t, HasGlob) = {}
              /\ Cardinality(Where(t, IsRemoteClient)) = 1
              /\ \A c \in Where(t, IsRemoteClient) :
                    /\ t[c].token = appToken
                    /\ t[c].url.env = "import.meta.env.ASTRO_STUDIO_REMOTE_DB_URL"
                    /\ t[c].url.default = "https://db.services.astro.build"

C16_Witness ==
    /\ connectToStudio /\ appToken = "token2"
    /\ ret.called /\ ret.id = resolved.seedVirtual
    /\ IsRemoteText(ret.result.value)
    /\ Cardinality(Where(ret.result.value, IsTableExport)) = 2

\* The text of the other variant for the configuration and stores as they are
OtherVariant ==
    IF connectToStudio THEN getLocalVirtualModContents(root, tables, seedFiles, FALSE)
    ELSE getStudioVirtualModContents(tables, "token")

\* C18: the text a load returns for a virtual id, local or remote, has one
\* export per table of the definitions current at the call, named after the
\* table and built from the table's name and its serialized definition, and no
\* table export for any other name; the other variant has the same exports.
C18_TableExports ==
    [][ (ret' # ret /\ ret'.id \in VirtualIds)
        => LET t == ret'.result.value
               ex == Where(t, IsTableExport)
           IN  /\ Cardinality(ex) = Len(tables)
               /\ \A k \in 1..Len(tables) :
                     \E e \in ex :
                        /\ t[e].name = tables[k].name
                        /\ t[e].call = "asDrizzleTable"
                        /\ t[e].tableName = tables[k].name
                        /\ t[e].json = tables[k].def
                        /\ \A f \in ex : t[f].name = t[e].name => f = e
               /\ \A e \in ex : \E k \in 1..Len(tables) : t[e].name = tables[k].name
               /\ SelectSeq(t, IsTableExport) = SelectSeq(OtherVariant, IsTableExport)
      ]_vars

C18_Witness ==
    /\ ~connectToStudio /\ ret.called /\ ret.id = resolved.virtual
    /\ LET t == ret.result.value
       IN  /\ Cardinality(Where(t, IsTableExport)) = 2
           /\ \E e \in Where(t, IsTableExport) :
                 t[e].name = "B" /\ t[e].json.fk = "A"
           /\ \E e \in Where(t, IsTableExport) :
                 t[e].name = "A" /\ t[e].json.indexes = <<"i1", "i2">>

----------------------------------------------------------------------------
(* Further properties of resolveId, checked under ResolveSpec *)

\* C19: resolveId declines for every requested id other than the reserved
\* specifier, in both modes and for every importer; the importer is not
\* consulted: no such call waits for the host, so the call declines also
\* where the host would fail on the importer.
C19_OtherIdsDeclined ==
    /\ (res.called /\ res.id # VIRTUAL_MODULE_ID)
          => (res.result = Undefined /\ res.host = NotAsked)
    /\ \A i \in 1..Len(asking) : asking[i].id = VIRTUAL_MODULE_ID

\* A call for another id with an importer has declined while a call for the
\* reserved specifier waits for the host
C19_Witness ==
    /\ ~connectToStudio /\ res.called
    /\ res.id = WITH_SEED_VIRTUAL_MODULE_ID
    /\ Truthy(res.raw) /\ res.host = NotAsked
    /\ res.result = Undefined
    /\ asking # <<>>

\* C20: resolveId never fails: every call completes with a decline, the plain
\* id or the seed-bearing id, also when the host's resolution of the importer
\* fails.
C20_ResolveNeverFails ==
    res.called =>
        res.result \in { Undefined, Value(resolved.virtual), Value(resolved.seedVirtual) }

----------------------------------------------------------------------------
(* Concurrent loads, checked under ConcurrentSpec *)

\* The load calls whose batch is in flight
InFlight == { p \in pending : p.batch = "inflight" }

\* C21: under any interleaving of concurrent load calls for distinct module
\* ids, at most one resynchronize batch is in flight against the local
\* database at a time.
C21_OneBatchInFlight == Cardinality(InFlight) <= 1

----------------------------------------------------------------------------
(* Properties of the stores, checked under StoreSpec (C23 under Spec) *)

IsDrop(st) == st.op = "drop"

\* The names and definitions that the table exports of the text t carry
ExportedTables(t) ==
    LET ex == SelectSeq(t, IsTableExport)
    IN  [i \in 1..Len(ex) |-> [name |-> ex[i].tableName, def |-> ex[i].json]]

\* The names of the tables that the statements drop, in order
DroppedNames(stmts) ==
    LET dr == SelectSeq(stmts, IsDrop)
    IN  [i \in 1..Len(dr) |-> dr[i].name]

\* C22: while the table definitions and the seed file list change between
\* load calls, each load renders its text from the definitions and the seed
\* file list that the accessors return at that call, and each resynchronize
\* builds its statements from the definitions returned at that call, never
\* from those of the construction or of an earlier load.
C22_StoresReadAtCall ==
    [][ /\ \A q \in pending' : (Suspends(q) /\ q.batch = "inflight")
             => /\ q.tables = tables
                /\ DroppedNames(q.stmts) = [i \in 1..Len(tables) |-> tables[i].name]
        /\ (ret' # ret /\ ret'.batch = "none" /\ ret'.id \in VirtualIds)
             => LET t == ret'.result.value
                IN  /\ ExportedTables(t) = tables
                    /\ \A a \in Where(t, IsSeedAwait) :
                          t[a].integrationSeedImports
                              = integrationSeedImports(root, seedFiles)
      ]_vars

\* A seed-bearing text with two tables and an integration seed file has been
\* rendered after a resynchronize that created one table only
C22_Witness ==
    /\ ~connectToStudio /\ ret.called /\ ret.id = resolved.seedVirtual
    /\ Len(ExportedTables(ret.result.value)) = 2
    /\ \E a \in Where(ret.result.value, IsSeedAwait) :
          ret.result.value[a].integrationSeedImports # <<>>
    /\ \E p \in pending : p.batch = "committed"
    /\ Exists(db, "A") /\ ~Exists(db, "B")

\* C23: each resynchronize makes one batch call to the client, which carries
\* the deferred-foreign-key statement and the DROP, CREATE and CREATE INDEX
\* statements of every table; the database changes by that batch and by the
\* inserts of the application, by nothing else, and a batch that has failed
\* is not issued again.
C23_OneBatchPerResync ==
    [][ /\ \A p \in pending :
              /\ Settles(p)
                    => /\ \E q \in pending' : q.client = p.client /\ q.calls = 1
                       /\ db' = Batch(p.stmts, db).d
                       /\ \E k \in 1..Len(p.stmts) : p.stmts[k] = Pragma
                       /\ \A i \in 1..Len(p.tables) :
                             /\ \E k \in 1..Len(p.stmts) :
                                   p.stmts[k] = [op |-> "drop", name |-> p.tables[i].name]
                             /\ \E k \in 1..Len(p.stmts) :
                                   p.stmts[k] = [op |-> "create", name |-> p.tables[i].name,
                                                 def |-> p.tables[i].def]
                             /\ \A m \in 1..Len(p.tables[i].def.indexes) :
                                   \E k \in 1..Len(p.stmts) :
                                      p.stmts[k] = [op |-> "index",
                                                    index |-> p.tables[i].def.indexes[m],
                                                    name |-> p.tables[i].name]
              /\ p.batch = "failed"
                    => \A q \in pending' : q.client = p.client => q.batch # "inflight"
        /\ db' # db
              => \/ \E p \in pending : Settles(p)
                 \/ \E n \in TableNames : db' = [db EXCEPT !.tables[n].rows = @ + 1]
      ]_vars

\* A batch has failed and the call is about to return: one call was made
C23_Witness ==
    \E p \in pending :
        /\ p.batch = "failed" /\ p.calls = 1
        /\ p.error = SqlError("index", "B", "index already exists")
        /\ Exists(db, "A") /\ ~Exists(db, "B")

----------------------------------------------------------------------------
(* The seed imports of the local module text, checked under RenderSpec *)

\* The last name of a path
LastName(path) == Segments(path)[Len(Segments(path))]

\* A load of the seed-bearing id returns the local text in this step
RendersSeed == ~connectToStudio /\ ret' # ret /\ ret'.id = resolved.seedVirtual

\* C24: the local text rendered with the seed has one glob import, eager and
\* over the fixed conventional seed paths, and one deferred import thunk per
\* integration seed file, in the order of the seed file list; with no
\* integration seed file it has no thunk.
C24_SeedImportGroups ==
    [][ RendersSeed
        => LET t == ret'.result.value
           IN  /\ Cardinality(Where(t, HasGlob)) = 1
               /\ \A a \in Where(t, HasGlob) :
                     /\ t[a].userSeedGlob.eager
                     /\ t[a].userSeedGlob.glob
                            = << <<"/", "d", "b", "/", "s", "e", "e", "d", ".", "t", "s">>,
                                 <<"/", "d", "b", "/", "s", "e", "e", "d", ".", "j", "s">> >>
                     /\ Len(t[a].integrationSeedImports) = Len(seedFiles)
                     /\ \A k \in 1..Len(seedFiles) :
                           /\ t[a].integrationSeedImports[k].thunk = "() => import"
                           /\ LastName(t[a].integrationSeedImports[k].path)
                                 = LastName(seedFiles[k].s)
      ]_vars

C24_Witness ==
    /\ ~connectToStudio /\ ret.called /\ ret.id = resolved.seedVirtual
    /\ \E a \in Where(ret.result.value, HasGlob) :
          LET im == ret.result.value[a].integrationSeedImports
          IN  /\ Len(im) = 3
              /\ LastName(im[1].path) = <<"y">>
              /\ LastName(im[3].path) = <<"x">>

\* C25 as stated: every integration seed file given as a string is emitted as
\* a path under the project root, whether or not the string begins with a
\* dot.
C25_StringsResolvedUnderRoot ==
    [][ RendersSeed
        => \A a \in Where(ret'.result.value, IsSeedAwait) :
              \A k \in 1..Len(seedFiles) :
                 ~seedFiles[k].isUrl
                 => StartsWith(ret'.result.value[a].integrationSeedImports[k].path,
                               rootPath)
      ]_vars

\* C25 amended: a string that begins with a dot is emitted as the absolute
\* path it names under the project root; every other string is emitted as it
\* is given; a URL is emitted as its path.
C25_DotStringsResolved ==
    [][ RendersSeed
        => \A a \in Where(ret'.result.value, IsSeedAwait) :
              \A k \in 1..Len(seedFiles) :
                 LET path == ret'.result.value[a].integrationSeedImports[k].path
                     given == seedFiles[k].s
                 IN  IF seedFiles[k].isUrl THEN path = given
                     ELSE IF given[1] = "."
                     THEN /\ StartsWith(path, rootPath)
                          /\ Segments(path)
                                = Segments(rootPath) \o <<LastName(given)>>
                     ELSE path = given
      ]_vars

C25_Witness ==
    /\ ~connectToStudio /\ ret.called /\ ret.id = resolved.seedVirtual
    /\ \E a \in Where(ret.result.value, IsSeedAwait) :
          LET im == ret.result.value[a].integrationSeedImports
          IN  /\ Len(im) = 3
              /\ im[2].path = <<"i", "/", "z">>
              /\ im[3].path = <<"/", "p", "/", "a", " ", "b", "/", "x">>

----------------------------------------------------------------------------
(* The database client handle and the database file (C26 under
   ConcurrentSpec, C30 under StoreSpec, C27 under ResyncSpec) *)

\* C26: across the load calls of a session the embedded database client is
\* constructed at most once, and every resynchronize is passed that one
\* handle.
C26_OneClientHandle ==
    /\ clients <= 1
    /\ \A p, q \in pending : p.client = q.client

IsDbUrl(st) == st.stmt = "const dbUrl"

\* The fixed relative database path resolved against the root, as a string
RootDbUrl == <<"f", "i", "l", "e", ":", "/", "/">> \o root.pathname \o DB_PATH

\* C30: for every project root, the database file URL that a seed file load
\* resynchronizes is the URL that the local module text binds its client to:
\* the fixed relative database path resolved against the root.
C30_SameDatabaseUrl ==
    /\ \A p \in pending : p.dbUrl = RootDbUrl /\ p.client.dbUrl = RootDbUrl
    /\ (~connectToStudio /\ ret.called /\ ret.id \in VirtualIds)
         => LET t == ret.result.value
            IN  /\ Cardinality(Where(t, IsDbUrl)) = 1
                /\ \A i \in Where(t, IsDbUrl) : t[i].value = RootDbUrl
                /\ \A c \in Where(t, IsLocalClient) : t[c].arg = "dbUrl"

C30_Witness ==
    /\ root.pathname = <<"/", "p", "/", "a", "%", "2", "0", "b", "/">>
    /\ ~connectToStudio /\ ret.called /\ ret.id = resolved.virtual
    /\ \E i \in Where(ret.result.value, IsDbUrl) :
          \E p \in pending : p.batch = "inflight" /\ p.dbUrl = ret.result.value[i].value

\* C27: after every resynchronize that commits, the tables of the local
\* database are the tables of the definitions passed to it: a table that an
\* earlier resynchronize created and that has left the definitions since does
\* not remain.
C27_SchemaEqualsDefinitions ==
    [][ \A p \in pending : Commits(p) =>
            { n \in TableNames : db'.tables[n].exists }
                = { p.tables[i].name : i \in 1..Len(p.tables) }
      ]_vars

----------------------------------------------------------------------------
(* When load resynchronizes, checked under ResyncSpec *)

\* C28: load resynchronizes exactly when its id is a conventional seed file
\* path, in both modes: only such a load suspends on a batch, a load that
\* returns for such an id has gone through recreateTables, a load of any
\* other id leaves the database and the batches as they are, and so does
\* every resolveId call.
C28_ResyncOnlyForSeedFiles ==
    [][ /\ \A q \in pending' : Suspends(q) => q.id \in SeedFilePathSet
        /\ (ret' # ret /\ ret'.id \in SeedFilePathSet)
              => ret'.batch \in {"committed", "failed", "unissued"}
        /\ (ret' # ret /\ ret'.id \notin SeedFilePathSet)
              => /\ ret'.batch = "none"
                 /\ db' = db /\ pending' = pending
        /\ res' # res => (db' = db /\ pending' = pending /\ ret' = ret)
      ]_vars

\* In remote-managed mode a seed file load has resynchronized the local
\* database; resolveId has been called
C28_Witness ==
    /\ connectToStudio /\ res.called
    /\ ret.called /\ ret.id \in SeedFilePathSet /\ ret.batch = "committed"
    /\ Exists(db, "A") /\ Exists(db, "B")

\* The error of the DDL generator for the table of that name
CannotTranslate(name) == SqlError("getCreateTableQuery", name, "cannot translate")

\* C29: when the DDL generator fails for a table of the definitions, the
\* resynchronize fails before it issues the batch: the load issues no batch,
\* no statement runs for it, not even the DROP of an earlier table, the
\* database is unchanged by it, and the load fails with the generator's error.
C29_SchemaErrorBeforeBatch ==
    [][ /\ \A q \in pending' :
              (Suspends(q) /\ \E i \in 1..Len(tables) : ~tables[i].def.translatable)
              => /\ q.batch = "unissued" /\ q.stmts = <<>> /\ q.calls = 0
                 /\ \E i \in 1..Len(tables) :
                       /\ ~tables[i].def.translatable
                       /\ q.error = CannotTranslate(tables[i].name)
                 /\ db' = db
        /\ \A p \in pending : p.batch = "unissued"
              => /\ \A q \in pending' : q.client = p.client => q = p
                 /\ Returns(p)
                       => /\ db' = db
                          /\ ret'.id = p.id /\ ret'.batch = "unissued"
                          /\ ret'.result = Rejects(p.error)
      ]_vars

\* A seed file load has failed on the second table while the first table,
\* which an earlier resynchronize created, is still there with its index
C29_Witness ==
    /\ ret.called /\ ret.id \in SeedFilePathSet /\ ret.batch = "unissued"
    /\ ret.result.kind = "throws" /\ ret.result.error.name = "B"
    /\ pending = {}
    /\ Exists(db, "A") /\ db.tables["A"].def.indexes = <<"i1", "i2">>

====
